---- MODULE Spec2Model ----
(***************************************************************************)
(* Model of the Rocket/MongoDB user service: the five request handlers of  *)
(* src/api/user_api.rs running concurrently against the one shared         *)
(* MongoRepo of src/repository/mongodb_repo.rs.                            *)
(*                                                                         *)
(* A handler that makes one storage round trip is one atomic action: the   *)
(* code around the round trip touches only the request's own data, so the  *)
(* handler takes effect at that round trip.  update_user makes two round   *)
(* trips (update_one, then find_one to read the record back) and is two    *)
(* actions; other requests run between them.                               *)
(*                                                                         *)
(* The storage engine is taken to answer every operation (the driver's Err *)
(* results, which the adapter turns into a panic with .ok().expect(..),    *)
(* are not injected).  A panic inside a handler is answered by the web     *)
(* framework with status 500.                                              *)
(***************************************************************************)
EXTENDS Integers, Sequences, FiniteSets

\* ---------------------------------------------------------------- bounds
\* Number of request-handling contexts that can be in flight together.
MaxReqs == 2
\* Number of identifiers the storage engine can hand out.
MaxOid == 2
\* Length of the hexadecimal text of an identifier (24 in the driver).
OidLen == 2

Reqs == 1..MaxReqs
Oids == 1..MaxOid

\* ------------------------------------------------------- HTTP statuses
Ok == 200
BadRequest == 400
NotFound == 404
InternalServerError == 500
\* No response has been produced yet.
NoStatus == 0

\* ------------------------------------------------------------- values
None == [some |-> FALSE]
Some(x) == [some |-> TRUE, v |-> x]

\* Request bodies: {name, location, title}.
Bodies ==
  { [name |-> "A", location |-> "B", title |-> "C"],
    [name |-> "X", location |-> "Y", title |-> "Z"] }
NoBody == [name |-> "", location |-> "", title |-> ""]

HexDigits == <<"0", "1", "2", "3", "4", "5", "6", "7",
               "8", "9", "a", "b", "c", "d", "e", "f">>

HexDigitSet == {HexDigits[i] : i \in 1..Len(HexDigits)}

DigitValue == [c \in HexDigitSet |-> (CHOOSE i \in 1..Len(HexDigits) : HexDigits[i] = c) - 1]

IsHexDigit(c) == c \in HexDigitSet

RECURSIVE Pow16(_)
Pow16(k) == IF k = 0 THEN 1 ELSE 16 * Pow16(k - 1)

\* The hexadecimal text of an identifier, most significant digit first.
to_hex(oid) ==
  [i \in 1..OidLen |-> HexDigits[((oid \div Pow16(OidLen - i)) % 16) + 1]]

\* The number the first n hexadecimal digits of s spell.
RECURSIVE HexValue(_, _)
HexValue(s, n) ==
  IF n = 0 THEN 0 ELSE 16 * HexValue(s, n - 1) + DigitValue[s[n]]

\* ObjectId::parse_str: a text of exactly OidLen hexadecimal digits.
parse_str(s) ==
  IF Len(s) = OidLen /\ \A i \in 1..Len(s) : IsHexDigit(s[i])
  THEN [ok |-> TRUE, oid |-> HexValue(s, Len(s))]
  ELSE [ok |-> FALSE, oid |-> 0]

\* Path identifiers a client can send: the empty text, malformed texts (a
\* character that is no hexadecimal digit, a text one digit short) and the
\* text of every identifier.
EmptyPath == <<>>
BadCharPath == [i \in 1..OidLen |-> "z"]
ShortPath == [i \in 1..(OidLen - 1) |-> "0"]
Paths == {EmptyPath, BadCharPath, ShortPath} \cup {to_hex(n) : n \in Oids}

is_empty(s) == Len(s) = 0

\* ------------------------------------------------------------ state
VARIABLES
  col,      \* the User collection: a set of stored documents
  nextOid,  \* the identifier the next insert is given
  req,      \* per request context: the request it is in the middle of
  out,      \* the request that was answered last, with its response
  lastW,    \* per path identifier: the last write the storage applied to it
  deletes   \* per path identifier: the delete requests answered 200 (up to 2)

vars == <<col, nextOid, req, out, lastW, deletes>>

\* ----------------------------------------------------- documents / User
\* The User struct as the handlers build it.
User(id, name, location, title) ==
  [id |-> id, name |-> name, location |-> location, title |-> title]

\* A stored document: the key _id, the three text fields, and the field
\* named "id", which is absent (None) unless an update has set it.
Document(oid, user) ==
  [_id |-> oid, id |-> None, name |-> user.name,
   location |-> user.location, title |-> user.title]

\* Reading a document back as a User: _id becomes id, the field named "id"
\* is unknown to the struct and dropped.
Deserialize(d) == User(Some(d._id), d.name, d.location, d.title)

\* ------------------------------------------------------ storage engine
insert_one(c, user, fresh) == c \cup {Document(fresh, user)}

find_one(c, oid) ==
  LET m == {d \in c : d._id = oid}
  IN IF m = {} THEN None ELSE Some(Deserialize(CHOOSE d \in m : TRUE))

\* $set of the fields "id", "name", "location", "title" on the document
\* whose _id matches the filter.
SetFields(d, set) ==
  [d EXCEPT !.id = set.id, !.name = set.name,
            !.location = set.location, !.title = set.title]

update_one(c, oid, set) ==
  LET m == {d \in c : d._id = oid}
  IN [col |-> (c \ m) \cup {SetFields(d, set) : d \in m},
      matched_count |-> Cardinality(m)]

delete_one(c, oid) ==
  LET m == {d \in c : d._id = oid}
  IN [col |-> c \ m, deleted_count |-> Cardinality(m)]

\* find without a filter: every document once, in an order the storage picks.
find(c) ==
  {s \in [1..Cardinality(c) -> c] :
     \A i, j \in 1..Cardinality(c) : i # j => s[i] # s[j]}

\* -------------------------------------------------- repository adapter
\* What an adapter method hands back to the handler: Ok(val), Err, or a
\* panic that unwinds through the handler; with the collection afterwards
\* and the number of storage operations it performed.
Result(kind, val, c, ops) == [kind |-> kind, val |-> val, col |-> c, ops |-> ops]

\* create_user storing the name as the location.
MongoRepo_create_user_swapped(c, fresh, new_user) ==
  LET new_doc == User(None, new_user.name, new_user.name, new_user.title)
  IN Result("Ok", [inserted_id |-> fresh], insert_one(c, new_doc, fresh), 1)

MongoRepo_create_user(c, fresh, new_user) ==
  LET new_doc == User(None, new_user.name, new_user.location, new_user.title)
  IN Result("Ok", [inserted_id |-> fresh], insert_one(c, new_doc, fresh), 1)

\* get_user asking the storage twice: whether the record exists, then for it.
MongoRepo_get_user_two_ops(c, id) ==
  LET p == parse_str(id)
  IN IF ~p.ok THEN Result("panic", None, c, 0)
     ELSE LET user_detail == find_one(c, p.oid)
          IN IF user_detail.some THEN Result("Ok", user_detail.v, c, 2)
             ELSE Result("panic", None, c, 1)

MongoRepo_get_user(c, id) ==
  LET p == parse_str(id)
  IN IF ~p.ok THEN Result("panic", None, c, 0)
     ELSE LET user_detail == find_one(c, p.oid)
          IN IF user_detail.some THEN Result("Ok", user_detail.v, c, 1)
             ELSE Result("panic", None, c, 1)

\* update_user whose $set leaves out the title.
MongoRepo_update_user_no_title(c, id, new_user) ==
  LET p == parse_str(id)
  IN IF ~p.ok THEN Result("panic", None, c, 0)
     ELSE LET kept == {d \in c : d._id = p.oid}
              set == IF kept = {} THEN new_user
                     ELSE [new_user EXCEPT !.title = (CHOOSE d \in kept : TRUE).title]
              updated_doc == update_one(c, p.oid, set)
          IN Result("Ok", [matched_count |-> updated_doc.matched_count],
                    updated_doc.col, 1)

MongoRepo_update_user(c, id, new_user) ==
  LET p == parse_str(id)
  IN IF ~p.ok THEN Result("panic", None, c, 0)
     ELSE LET updated_doc == update_one(c, p.oid, new_user)
          IN Result("Ok", [matched_count |-> updated_doc.matched_count],
                    updated_doc.col, 1)

\* delete_user that counts the matching record without removing it.
MongoRepo_delete_user_no_remove(c, id) ==
  LET p == parse_str(id)
  IN IF ~p.ok THEN Result("panic", None, c, 0)
     ELSE LET user_detail == delete_one(c, p.oid)
          IN Result("Ok", [deleted_count |-> user_detail.deleted_count], c, 1)

MongoRepo_delete_user(c, id) ==
  LET p == parse_str(id)
  IN IF ~p.ok THEN Result("panic", None, c, 0)
     ELSE LET user_detail == delete_one(c, p.oid)
          IN Result("Ok", [deleted_count |-> user_detail.deleted_count],
                    user_detail.col, 1)

\* get_all_users that stops after the first document of the cursor.
MongoRepo_get_all_users_first_only(c) ==
  {Result("Ok", [i \in 1..(IF Len(s) = 0 THEN 0 ELSE 1) |-> Deserialize(s[i])], c, 1) :
     s \in find(c)}

\* The results the adapter can return: one per order the cursor can yield.
MongoRepo_get_all_users(c) ==
  {Result("Ok", [i \in 1..Len(s) |-> Deserialize(s[i])], c, 1) : s \in find(c)}

\* ------------------------------------------------------ request contexts
\* A request with its response and the record of what it did: the adapter
\* calls and storage operations it made, whether it changed the collection,
\* how its response arose (via: the handler's own check, an Ok or Err from
\* the adapter, or a panic), whether its path identifier named a record that
\* had been created and not deleted when it started (existed).
Idle ==
  [op |-> "none", pc |-> "idle", path |-> EmptyPath, body |-> NoBody,
   status |-> NoStatus, resp |-> None, via |-> "none",
   calls |-> 0, ops |-> 0, wrote |-> FALSE, existed |-> FALSE]

\* Context r can take a request.  The response of the request answered last
\* is sent before the next handler step is looked at, so that a state with
\* a response in it is the state that response was computed in.
Free(r) == req[r].pc = "idle" /\ out.pc = "idle"

\* A new request of kind op enters context r.
Accept(r, op, path, body) ==
  [Idle EXCEPT !.op = op, !.pc = "call", !.path = path, !.body = body,
               !.existed = (lastW[path].kind \in {"create", "update"})]

\* The handler returns: the response goes out.
Respond(q, status, resp, via) ==
  [q EXCEPT !.pc = "done", !.status = status, !.resp = resp, !.via = via]

\* Bookkeeping of one adapter call made by request q.
Called(q, res, c) ==
  [q EXCEPT !.calls = @ + 1, !.ops = @ + res.ops,
            !.wrote = @ \/ (res.col # c)]

\* Context r goes on with q: an answered request leaves the context.
Continue(r, q) ==
  IF q.pc = "done"
  THEN /\ out' = q
       /\ req' = [req EXCEPT ![r] = Idle]
  ELSE /\ out' = out
       /\ req' = [req EXCEPT ![r] = q]

Write(kind, body) == [kind |-> kind, body |-> body]

Init ==
  /\ col = {}
  /\ nextOid = 1
  /\ req = [r \in Reqs |-> Idle]
  /\ out = Idle
  /\ lastW = [p \in Paths |-> Write("none", NoBody)]
  /\ deletes = [p \in Paths |-> 0]

\* The handler's match on the result of MongoRepo::get_user, in get_user and
\* after the update in update_user; a panic is answered 500.
get_user_response(q, user_detail) ==
  IF user_detail.kind = "Ok"
  THEN Respond(q, Ok, user_detail.val, "Ok")
  ELSE Respond(q, InternalServerError, None, user_detail.kind)

\* ---------------------------------------------------------- POST /user
create_user_handler(r, new_user) ==
  LET data == User(None, new_user.name, new_user.location, new_user.title)
      user_detail == MongoRepo_create_user(col, nextOid, data)
      q == Called(Accept(r, "create", EmptyPath, new_user), user_detail, col)
  IN [col |-> user_detail.col,
      q |-> IF user_detail.kind = "Ok"
            THEN Respond(q, Ok, user_detail.val, "Ok")
            ELSE Respond(q, InternalServerError, None, user_detail.kind)]

create_user(r) ==
  /\ Free(r)
  /\ nextOid <= MaxOid
  /\ \E new_user \in Bodies :
       LET h == create_user_handler(r, new_user)
       IN /\ col' = h.col
          /\ nextOid' = nextOid + 1
          /\ lastW' = [lastW EXCEPT ![to_hex(h.q.resp.inserted_id)] =
                         Write("create", new_user)]
          /\ Continue(r, h.q)
  /\ UNCHANGED deletes

\* ------------------------------------------------------ GET /user/<path>
\* get_user without the is_empty check.
get_user_handler_unchecked(r, path) ==
  LET id == path
      q == Accept(r, "get", id, NoBody)
      user_detail == MongoRepo_get_user(col, id)
  IN get_user_response(Called(q, user_detail, col), user_detail)

get_user_handler(r, path) ==
  LET id == path
      q == Accept(r, "get", id, NoBody)
  IN IF is_empty(id) THEN Respond(q, BadRequest, None, "check")
     ELSE LET user_detail == MongoRepo_get_user(col, id)
          IN get_user_response(Called(q, user_detail, col), user_detail)

get_user(r) ==
  /\ Free(r)
  /\ \E path \in Paths : Continue(r, get_user_handler(r, path))
  /\ UNCHANGED <<col, nextOid, lastW, deletes>>

\* ------------------------------------------------------ PUT /user/<path>
\* update_user up to and including db.update_user and the match on it.
update_user_handler(r, path, new_user) ==
  LET id == path
      q0 == Accept(r, "update", id, new_user)
  IN IF is_empty(id)
     THEN [col |-> col, q |-> Respond(q0, BadRequest, None, "check")]
     ELSE IF ~parse_str(id).ok
     THEN [col |-> col, q |-> Respond(q0, InternalServerError, None, "panic")]
     ELSE LET data == User(Some(parse_str(id).oid), new_user.name,
                           new_user.location, new_user.title)
              update_result == MongoRepo_update_user(col, id, data)
              q == Called(q0, update_result, col)
          IN [col |-> update_result.col,
              q |-> IF update_result.kind = "Ok"
                    THEN IF update_result.val.matched_count = 1
                         THEN [q EXCEPT !.pc = "reread"]
                         ELSE Respond(q, NotFound, None, "Ok")
                    ELSE Respond(q, InternalServerError, None, update_result.kind)]

update_user(r) ==
  /\ Free(r)
  /\ \E path \in Paths, new_user \in Bodies :
       LET h == update_user_handler(r, path, new_user)
       IN /\ col' = h.col
          /\ lastW' = IF h.q.pc = "reread"
                      THEN [lastW EXCEPT ![path] = Write("update", new_user)]
                      ELSE lastW
          /\ Continue(r, h.q)
  /\ UNCHANGED <<nextOid, deletes>>

\* update_user from db.get_user(&id) on.
update_user_reread(r) ==
  /\ req[r].pc = "reread" /\ out.pc = "idle"
  /\ LET update_user_info == MongoRepo_get_user(col, req[r].path)
     IN Continue(r, get_user_response(Called(req[r], update_user_info, col),
                                      update_user_info))
  /\ UNCHANGED <<col, nextOid, lastW, deletes>>

\* --------------------------------------------------- DELETE /user/<path>
delete_user_handler(r, path) ==
  LET id == path
      q0 == Accept(r, "delete", id, NoBody)
  IN IF is_empty(id)
     THEN [col |-> col, q |-> Respond(q0, BadRequest, None, "check")]
     ELSE LET result == MongoRepo_delete_user(col, id)
              q == Called(q0, result, col)
          IN [col |-> result.col,
              q |-> IF result.kind = "Ok"
                    THEN IF result.val.deleted_count = 1
                         THEN Respond(q, Ok, "User successfully deleted!", "Ok")
                         ELSE Respond(q, NotFound, None, "Ok")
                    ELSE Respond(q, InternalServerError, None, result.kind)]

delete_user(r) ==
  /\ Free(r)
  /\ \E path \in Paths :
       LET h == delete_user_handler(r, path)
       IN /\ col' = h.col
          /\ lastW' = IF h.q.status = Ok
                      THEN [lastW EXCEPT ![path] = Write("delete", NoBody)]
                      ELSE lastW
          /\ deletes' = IF h.q.status = Ok /\ deletes[path] < 2
                        THEN [deletes EXCEPT ![path] = @ + 1]
                        ELSE deletes
          /\ Continue(r, h.q)
  /\ UNCHANGED nextOid

\* ------------------------------------------------------------ GET /users
get_all_users_handler(r, users) ==
  LET q == Called(Accept(r, "list", EmptyPath, NoBody), users, col)
  IN IF users.kind = "Ok"
     THEN Respond(q, Ok, users.val, "Ok")
     ELSE Respond(q, InternalServerError, None, users.kind)

get_all_users(r) ==
  /\ Free(r)
  /\ \E users \in MongoRepo_get_all_users(col) :
       Continue(r, get_all_users_handler(r, users))
  /\ UNCHANGED <<col, nextOid, lastW, deletes>>

\* The framework sends the response of the request answered last.
send_response ==
  /\ out.pc = "done"
  /\ out' = Idle
  /\ UNCHANGED <<col, nextOid, req, lastW, deletes>>

Next ==
  \/ send_response
  \/ \E r \in Reqs :
       \/ create_user(r)
       \/ get_user(r)
       \/ update_user(r)
       \/ update_user_reread(r)
       \/ delete_user(r)
       \/ get_all_users(r)

Spec == Init /\ [][Next]_vars

\* ================================================================ claims
\* A request has just been answered: out is its record, and the rest of the
\* state is the state its response was computed in.
Answered(op) == out.pc = "done" /\ out.op = op

WellFormed(path) == parse_str(path).ok

Fields(u) == [name |-> u.name, location |-> u.location, title |-> u.title]

Live(path) == lastW[path].kind \in {"create", "update"}

DocsOf(path) ==
  LET p == parse_str(path)
  IN IF p.ok THEN {d \in col : d._id = p.oid} ELSE {}

NoRequestInFlight == \A r \in Reqs : req[r].pc = "idle"

\* C1. Create/get round trip: a create is answered 200 with an identifier
\* under which exactly one record with the request's name, location and title
\* is stored; a get with the text of that identifier, while the create is the
\* last write to it, is answered 200 with that identifier and those values.
CreateGetRoundTrip ==
  /\ Answered("create") =>
       /\ out.status = Ok
       /\ LET p == to_hex(out.resp.inserted_id)
              docs == DocsOf(p)
          IN /\ p \in Paths
             /\ Cardinality(docs) = 1
             /\ \A d \in docs : Fields(d) = out.body
  /\ (Answered("get") /\ lastW[out.path].kind = "create") =>
       /\ out.status = Ok
       /\ out.resp.id.some /\ to_hex(out.resp.id.v) = out.path
       /\ Fields(out.resp) = lastW[out.path].body

CreateGetRoundTripWitness ==
  /\ Answered("get") /\ lastW[out.path].kind = "create"
  /\ out.status = Ok /\ Fields(out.resp) \in Bodies

\* C2. Delete succeeds exactly once per identifier: no identifier has two
\* deletes answered 200; a delete of a record that exists when the delete
\* starts is answered 200 and the record is gone afterwards; a delete that
\* starts after the identifier's record was removed is answered 404.
DeleteExactlyOnce ==
  /\ \A p \in Paths : deletes[p] <= 1
  /\ (Answered("delete") /\ out.existed) =>
       /\ out.status = Ok /\ out.wrote
       /\ DocsOf(out.path) = {}
  /\ (Answered("delete") /\ ~out.existed /\ deletes[out.path] >= 1) =>
       /\ out.status = NotFound /\ ~out.wrote

DeleteExactlyOnceWitness ==
  /\ Answered("delete") /\ out.status = NotFound
  /\ ~out.existed /\ deletes[out.path] = 1

\* C3. List-all completeness: a list request that runs with no request in
\* flight is answered 200 with a list that holds no identifier twice, holds
\* exactly the identifiers created and not deleted, and gives each its
\* current name, location and title.
ListAllComplete ==
  (Answered("list") /\ NoRequestInFlight) =>
    /\ out.status = Ok
    /\ \A i, j \in 1..Len(out.resp) :
         i # j => out.resp[i].id # out.resp[j].id
    /\ \A i \in 1..Len(out.resp) :
         /\ out.resp[i].id.some
         /\ to_hex(out.resp[i].id.v) \in Paths
         /\ Live(to_hex(out.resp[i].id.v))
         /\ Fields(out.resp[i]) = lastW[to_hex(out.resp[i].id.v)].body
    /\ \A p \in Paths :
         Live(p) => \E i \in 1..Len(out.resp) : to_hex(out.resp[i].id.v) = p

ListAllCompleteWitness ==
  /\ Answered("list") /\ NoRequestInFlight
  /\ Len(out.resp) >= 1
  /\ \E p \in Paths : lastW[p].kind = "delete"
  /\ \E p \in Paths : lastW[p].kind = "update"

\* C4. Update semantics: an update on a well-formed identifier that names no
\* record is answered 404 and stores nothing; an update on an existing
\* identifier leaves the record holding the request's name, location and
\* title, and a get while that update is the last write to the identifier is
\* answered 200 with exactly those values.
UpdateSemantics ==
  /\ (Answered("update") /\ WellFormed(out.path) /\ ~out.existed) =>
       /\ out.status = NotFound /\ ~out.wrote
       /\ DocsOf(out.path) = {}
  /\ \A p \in Paths :
       lastW[p].kind = "update" =>
         LET docs == DocsOf(p)
         IN /\ Cardinality(docs) = 1
            /\ \A d \in docs : Fields(d) = lastW[p].body
  /\ (Answered("get") /\ lastW[out.path].kind = "update") =>
       /\ out.status = Ok
       /\ Fields(out.resp) = lastW[out.path].body

UpdateSemanticsWitness ==
  /\ Answered("get") /\ lastW[out.path].kind = "update"
  /\ out.status = Ok /\ Fields(out.resp) \in Bodies

\* C5. Get failure mapping: a get whose identifier is non-empty and malformed,
\* or well-formed and naming no record, is answered 500, and the handler got
\* that failure from the adapter as an Err value.
GetFailureIsErrValue ==
  (Answered("get") /\ ~is_empty(out.path) /\ DocsOf(out.path) = {}) =>
    /\ out.status = InternalServerError
    /\ out.via = "Err"

\* The status half of C5 alone: such a get is answered 500.
GetFailureIs500 ==
  (Answered("get") /\ ~is_empty(out.path) /\ DocsOf(out.path) = {}) =>
    out.status = InternalServerError

\* C6. Empty identifier is rejected before storage: a get, update or delete
\* with the empty path identifier is answered 400 by the handler's own check,
\* with no adapter call and no storage operation made.
EmptyIdRejected ==
  \A op \in {"get", "update", "delete"} :
    (Answered(op) /\ is_empty(out.path)) =>
      /\ out.status = BadRequest /\ out.via = "check"
      /\ out.calls = 0 /\ out.ops = 0 /\ ~out.wrote

EmptyIdRejectedWitness ==
  /\ Answered("update") /\ is_empty(out.path)
  /\ out.status = BadRequest /\ col # {}

\* C7. Failure isolation: a request answered 400, 404 or 500 has not changed
\* the collection.
FailureIsolation ==
  (out.pc = "done" /\ out.status \in {BadRequest, NotFound, InternalServerError})
    => ~out.wrote

\* C8. Identifier immutability: the update's storage operation changes no
\* document's identifier and changes nothing but name, location and title of
\* the document the path identifier names.
OnlyText(d, e) ==
  e = [d EXCEPT !.name = e.name, !.location = e.location, !.title = e.title]

UpdateChangesOnlyText ==
  [][\A r \in Reqs :
       (req[r].pc = "idle" /\ req'[r].pc = "reread") =>
         /\ Cardinality(col') = Cardinality(col)
         /\ \A e \in col' : \E d \in col :
              /\ d._id = e._id
              /\ OnlyText(d, e)
              /\ (d._id # parse_str(req'[r].path).oid => e = d)]_vars

\* The identifier half of C8 alone: no step changes the set of identifiers
\* otherwise than by inserting a fresh one or deleting one.
IdentifiersKept ==
  [][\/ {d._id : d \in col'} = {d._id : d \in col}
     \/ {d._id : d \in col'} = {d._id : d \in col} \cup {nextOid}
     \/ \E p \in Paths : {d._id : d \in col'} = {d._id : d \in col} \ {parse_str(p).oid}]_vars

\* C9. Update response reflects the update: an update answered 200 carries
\* the path identifier and the name, location and title of its own body.
UpdateResponseReflectsUpdate ==
  (Answered("update") /\ out.status = Ok) =>
    /\ out.resp.id = Some(parse_str(out.path).oid)
    /\ Fields(out.resp) = out.body

\* C10 as stated. One adapter call per request: a request that passes the
\* empty-identifier check makes exactly one adapter call, and no request
\* makes more than one storage round trip.
OneAdapterCallPerRequest ==
  out.pc = "done" =>
    /\ out.ops <= 1
    /\ out.calls <= 1
    /\ (out.op \in {"create", "list"} \/ ~is_empty(out.path)) => out.calls = 1

\* C10 as amended. create, get, delete and list make exactly one adapter call
\* when they pass the empty-identifier check; update makes none when the
\* identifier is malformed, one when no record matched (404) and two
\* (update_user, then get_user) otherwise; an adapter call makes one storage
\* operation, or none when its identifier is malformed.
AdapterCallsPerRequest ==
  out.pc = "done" =>
    /\ out.ops <= out.calls
    /\ out.op \in {"create", "list"} => (out.calls = 1 /\ out.ops = 1)
    /\ (out.op \in {"get", "delete"} /\ ~is_empty(out.path)) =>
         /\ out.calls = 1
         /\ out.ops = (IF WellFormed(out.path) THEN 1 ELSE 0)
    /\ (out.op = "update" /\ ~is_empty(out.path)) =>
         IF ~WellFormed(out.path) THEN out.calls = 0 /\ out.ops = 0
         ELSE IF out.status = NotFound THEN out.calls = 1 /\ out.ops = 1
         ELSE out.calls = 2 /\ out.ops = 2

AdapterCallsPerRequestWitness ==
  /\ Answered("update") /\ out.status = Ok
  /\ out.calls = 2 /\ out.ops = 2

====
